---- MODULE Spec2Model ----
(***************************************************************************)
(* Model of the cluster management node of hugr (pkg/cluster): the node   *)
(* registry (Service.nodes under Service.mu), the per-node health loop     *)
(* (Node.Start / Node.Stop), the readiness predicate (Node.IsReady), the   *)
(* shared-secret gate (Service.ServeHTTP), the mutation broadcasts         *)
(* (load / unload / register / unregister object storage) with their      *)
(* per-node goroutines, error channel and collector goroutine, the       *)
(* data-source status query and the storage listing; and, on the worker   *)
(* side, the process of cmd/server (RegisterNode at start, the deferred   *)
(* UnregisterNode at shutdown) and the runtime operations of its cluster  *)
(* Source. A last part takes one Node by itself and calls Start a second  *)
(* time and Stop from outside (SpecRestart).                               *)
(*                                                                         *)
(* Service.Stop is deferred in main and runs only when the process exits;  *)
(* the model covers the serving lifetime of the process.                   *)
(***************************************************************************)
EXTENDS Integers, Sequences, FiniteSets, TLC

\* ------------------------------------------------------------------ bounds
\* Number of Node objects NewNode may allocate in one run.
MaxHandles == 2
\* Number of ticker firings (over all health loops) in one run; the clock
\* time.Now() advances with them.
MaxClock == 2

\* ------------------------------------------------------------ input domains
Urls == {"u1", "u2"}
\* "name" query parameter of POST /node ("" = omitted)
NameInputs == {"", "a"}
\* "url" query parameter of POST /node ("" = omitted)
UrlInputs == Urls \cup {""}
\* "name" query parameter of DELETE /node
DeleteInputs == {"", "a", "u1", "u2"}
\* Service.version as configured, and what a worker may report
ClusterVersion == "v1"
Versions == {"v1", "v2"}
\* "version" query parameter of POST /node
VersionInputs == {"v1", "v2"}
\* the same where registration is looked at by itself ("" = omitted)
RegisterVersions == {"", "v1", "v2"}
\* Service.secret as configured, and the x-hugr-secret header values tried
Secret == "s3cr3t"
SecretInputs == {"s3cr3t", "wrong"}

NoErr == "nil"
NotReadyMsg == "node is not ready"

\* ------------------------------------------------------------------- state
VARIABLES
  nodes,     \* Service.nodes: map from node name to *Node (a handle id)
  mu,        \* Service.mu: "free" or the handler that holds it
  N,         \* the Node objects allocated so far: sequence of records
  ctxs,      \* per Node: the context its Start made: "none", "live" or "done"
  loop,      \* per Node: its "go node.Start(...)" goroutine: where it is, and
             \* while a ping is in flight, what the worker answers
  now,       \* time.Now(), in ticks
  resp,      \* the HTTP response written by the last step (NoResp: none), with
             \* the secret of the request it answers
  expected,  \* history: membership by the register/deregister rule (name -> url)
  bc,        \* the broadcast or listing handler in progress, with its goroutines
  removed,   \* history: the Nodes whose DELETE /node has completed
  wk,        \* a worker process (cmd/server main) and its cluster Source
  rs         \* one Node on which Start and Stop are called again and again

vars == <<nodes, mu, N, ctxs, loop, now, resp, expected, bc, removed, wk, rs>>

\* ------------------------------------------------------------ map helpers
MapPut(m, k, v) == [x \in DOMAIN m \cup {k} |-> IF x = k THEN v ELSE m[x]]

MapDeleteKeep(m, k) == m

\* delete(s.nodes, k)
MapDelete(m, k) == [x \in DOMAIN m \ {k} |-> m[x]]

EmptyMap == [x \in {} |-> 0]

\* ------------------------------------------------------------------- Node
\* a health-loop goroutine at position pc, no ping in flight
Goroutine(pc) == [pc |-> pc, ok |-> FALSE, nv |-> ""]

NewNodeAtAssumesCluster(t, url, version, clusterVersion) ==
  [url |-> url, version |-> clusterVersion, clusterVersion |-> clusterVersion,
   lastSeen |-> t, err |-> NoErr, stop |-> 0]

\* NewNode: the Node as constructed for a registration
NewNodeAt(t, url, version, clusterVersion) ==
  [url |-> url, version |-> version, clusterVersion |-> clusterVersion,
   lastSeen |-> t, err |-> NoErr, stop |-> 0]

NewNode(url, version, clusterVersion) == NewNodeAt(now, url, version, clusterVersion)

IsReadyNoVersion(n) == n.err = NoErr

\* Node.IsReady
IsReady(n) == n.err = NoErr /\ n.version = n.clusterVersion

StopNodeSetsErr(n) == [n EXCEPT !.stop = 0, !.err = "stopped"]

\* Node.Stop, effect on the Node: n.stop = nil
StopNode(n) == IF n.stop # 0 THEN [n EXCEPT !.stop = 0] ELSE n

\* Node.Stop, effect on the contexts: n.stop() cancels the context it was made with
StopCtx(cs, n) == IF n.stop # 0 THEN [cs EXCEPT ![n.stop] = "done"] ELSE cs

\* ---------------------------------------------------------------- ServeHTTP
AuthorizedAlways(sec) == TRUE

\* Service.ServeHTTP: the x-hugr-secret header equals Service.secret
Authorized(sec) == sec = Secret

NoResp == [kind |-> "none", status |-> 0, body |-> "", secret |-> Secret, ctype |-> ""]

\* a response of handler kind ("reject", "node", "delete", "nodes", "mutation",
\* "status", "list") written by http.Error, or written before any
\* Content-Type header was set: the header is text/plain
Response(kind, status, body, sec) ==
  [kind |-> kind, status |-> status, body |-> body, secret |-> sec, ctype |-> "text/plain"]

\* w.Header().Set("Content-Type", "application/json") and then the body
JsonResponse(kind, body, sec) ==
  [kind |-> kind, status |-> 200, body |-> body, secret |-> sec, ctype |-> "application/json"]

\* 200 with nothing written: no body and no Content-Type
EmptyResponse(kind, sec) ==
  [kind |-> kind, status |-> 200, body |-> "", secret |-> sec, ctype |-> ""]

\* Service.ServeHTTP, the rejecting branch: 403 and nothing else
Unauthorized(sec) ==
  /\ ~Authorized(sec)
  /\ resp' = Response("reject", 403, "Unauthorized", sec)
  /\ UNCHANGED <<nodes, mu, N, ctxs, loop, now, expected>>
  /\ UNCHANGED <<bc, removed, wk, rs>>

\* ------------------------------------------------- history variable expected
\* The membership rule the registry is specified by: a register call for a
\* URL already registered removes the entries of that URL and inserts
\* nothing; any other register call inserts name -> url. No action reads
\* expected.
ExpectedAfterRegister(e, name, url) ==
  IF \E k \in DOMAIN e : e[k] = url
    THEN [k \in {x \in DOMAIN e : e[x] # url} |-> e[k]]
    ELSE MapPut(e, name, url)

\* ------------------------------------------------------------ /node handler
\* Service.nodeHandler, POST: register (or, for a key that exists, remove).
\* The handler leaves wk to the step that sends the request.
NodePost(name, url, version, sec) ==
  /\ Authorized(sec)
  /\ IF url = ""
       THEN /\ resp' = Response("node", 400, "node_url is required", sec)
            /\ UNCHANGED <<nodes, mu, N, ctxs, loop, now, expected>>
       ELSE LET nodeName == IF name = "" THEN url ELSE name IN
            /\ mu = "free"
            /\ IF url \in DOMAIN nodes
                 THEN LET h == nodes[url] IN
                      /\ N' = [N EXCEPT ![h] = StopNode(N[h])]
                      /\ ctxs' = StopCtx(ctxs, N[h])
                      /\ nodes' = MapDelete(nodes, url)
                      /\ resp' = EmptyResponse("node", sec)
                      /\ UNCHANGED loop
                 ELSE /\ Len(N) < MaxHandles
                      /\ N' = Append(N, NewNode(url, version, ClusterVersion))
                      /\ loop' = Append(loop, Goroutine("start"))
                      /\ ctxs' = Append(ctxs, "none")
                      /\ nodes' = MapPut(nodes, nodeName, Len(N) + 1)
                      /\ resp' = JsonResponse("node", "nodeConfig", sec)
            /\ expected' = ExpectedAfterRegister(expected, nodeName, url)
            /\ UNCHANGED <<mu, now>>
  /\ UNCHANGED <<bc, removed, rs>>

\* Service.nodeHandler, DELETE: deregister. The handler leaves wk to the
\* step that sends the request.
NodeDelete(nn, sec) ==
  /\ Authorized(sec)
  /\ IF nn = ""
       THEN /\ resp' = Response("delete", 400, "name is required", sec)
            /\ UNCHANGED <<nodes, mu, N, ctxs, loop, now, expected, removed>>
       ELSE /\ mu = "free"
            /\ IF nn \notin DOMAIN nodes
                 THEN /\ resp' = Response("delete", 404, "node not found", sec)
                      /\ UNCHANGED <<nodes, N, ctxs, expected, removed>>
                 ELSE LET h == nodes[nn] IN
                      /\ N' = [N EXCEPT ![h] = StopNode(N[h])]
                      /\ ctxs' = StopCtx(ctxs, N[h])
                      /\ nodes' = MapDelete(nodes, nn)
                      /\ expected' = [k \in DOMAIN expected \ {nn} |-> expected[k]]
                      /\ removed' = removed \cup {h}
                      /\ resp' = EmptyResponse("delete", sec)
            /\ UNCHANGED <<mu, loop, now>>
  /\ UNCHANGED <<bc, rs>>

\* NodeStatus as built by the GET branch for one entry
NodeStatusNoUrl(name, n, ent) ==
  [name |-> name, url |-> "", version |-> ent[1], error |-> ent[2],
   lastSeen |-> ent[3], ready |-> ent[4]]

\* NodeStatus{Name, Url, Version, Error, LastSeen, IsReady}: ent holds what
\* node.Version(), node.Error(), node.LastSeen() and node.IsReady() returned,
\* in the order the composite literal calls them
NodeStatus(name, n, ent) ==
  [name |-> name, url |-> n.url, version |-> ent[1], error |-> ent[2],
   lastSeen |-> ent[3], ready |-> ent[4]]

\* Node.Error
NodeError(n) == IF n.err = NoErr THEN "" ELSE n.err

\* the getter the composite literal calls after i of them have returned:
\* each takes n.mu for itself
NodeGetter(n, i) ==
  CASE i = 0 -> n.version
    [] i = 1 -> NodeError(n)
    [] i = 2 -> n.lastSeen
    [] i = 3 -> IsReady(n)

\* -------------------------------------------------------------- Node.Start
\* Node.Start up to the loop: n.stop is nil for a Node started once, as every
\* Node is (were it set, the old context would be cancelled first); then
\* ctx, n.stop = context.WithCancel(ctx) and the ticker is made
StartBegin(h) ==
  /\ loop[h].pc = "start"
  /\ ctxs' = [ctxs EXCEPT ![h] = "live"]
  /\ N' = [N EXCEPT ![h].stop = h]
  /\ loop' = [loop EXCEPT ![h].pc = "select"]
  /\ resp' = NoResp
  /\ UNCHANGED <<nodes, mu, now, expected>>
  /\ UNCHANGED <<bc, removed, wk, rs>>

SelectingOrPinging(g) == g.pc \in {"select", "ping"}

\* the goroutine is at the select of the for loop: the body of the previous
\* case has run to its end
Selecting(g) == g.pc = "select"

\* select, case <-t.C: the ticker fired and n.c.Ping is issued; the worker
\* answers (ok, nv). When ctx.Done() is ready too, select may still take
\* this case.
Tick(h, ok, nv) ==
  /\ Selecting(loop[h])
  /\ now < MaxClock
  /\ now' = now + 1
  /\ loop' = [loop EXCEPT ![h] = [pc |-> "ping", ok |-> ok, nv |-> IF ok THEN nv ELSE ""]]
  /\ resp' = NoResp
  /\ UNCHANGED <<nodes, mu, N, ctxs, expected>>
  /\ UNCHANGED <<bc, removed, wk, rs>>

PingUpdateKeepErr(t, n, ok, nv) ==
  IF ~ok THEN [n EXCEPT !.err = "ping failed"]
  ELSE [n EXCEPT !.version = nv, !.lastSeen = t]

PingUpdateTouchLastSeen(t, n, ok, nv) ==
  IF ~ok THEN [n EXCEPT !.err = "ping failed", !.lastSeen = t]
  ELSE [n EXCEPT !.version = nv, !.lastSeen = t, !.err = NoErr]

\* the body of case <-t.C after Ping returned (nv, err), under n.mu, at time t
PingUpdateAt(t, n, ok, nv) ==
  IF ~ok THEN [n EXCEPT !.err = "ping failed"]
  ELSE [n EXCEPT !.version = nv, !.lastSeen = t, !.err = NoErr]

PingUpdate(n, ok, nv) == PingUpdateAt(now, n, ok, nv)

AfterPingExitOnError(g) == IF g.ok THEN Goroutine("select") ELSE Goroutine("done")

\* the goroutine after the body of case <-t.C: the for loop goes round,
\* whatever Ping returned
AfterPing(g) == Goroutine("select")

PingLocksRegistry(m) == m = "free"

\* n.mu.Lock(): the only lock the loop takes is the Node's own, which no one
\* holds across a blocking call; Service.mu (m) plays no part
PingLocks(m) == TRUE

\* n.c.Ping(ctx) is called with the context that n.stop cancels: when that
\* context is cancelled while the call is in flight, the call may end with
\* the context's error in place of the worker's answer
PingCancelled(h) ==
  /\ loop[h].pc = "ping"
  /\ loop[h].ok
  /\ ctxs[h] = "done"
  /\ loop' = [loop EXCEPT ![h] = [pc |-> "ping", ok |-> FALSE, nv |-> ""]]
  /\ resp' = NoResp
  /\ UNCHANGED <<nodes, mu, N, ctxs, now, expected>>
  /\ UNCHANGED <<bc, removed, wk, rs>>

\* n.c.Ping returned; the result is recorded and the loop selects again
PingReturn(h) ==
  /\ loop[h].pc = "ping"
  /\ PingLocks(mu)
  /\ N' = [N EXCEPT ![h] = PingUpdate(N[h], loop[h].ok, loop[h].nv)]
  /\ loop' = [loop EXCEPT ![h] = AfterPing(loop[h])]
  /\ resp' = NoResp
  /\ UNCHANGED <<nodes, mu, ctxs, now, expected>>
  /\ UNCHANGED <<bc, removed, wk, rs>>

\* select, case <-ctx.Done(): return; the deferred n.Stop() and t.Stop() run
LoopExit(h) ==
  /\ loop[h].pc = "select"
  /\ ctxs[h] = "done"
  /\ N' = [N EXCEPT ![h] = StopNode(N[h])]
  /\ ctxs' = StopCtx(ctxs, N[h])
  /\ loop' = [loop EXCEPT ![h].pc = "done"]
  /\ resp' = NoResp
  /\ UNCHANGED <<nodes, mu, now, expected>>
  /\ UNCHANGED <<bc, removed, wk, rs>>

\* ------------------------------------------------- Start and Stop, again
\* One Node whose Start is called a second time while the loop of the first
\* call runs, and whose Stop is called from outside. n is the Node, n.stop
\* the number of the Start call whose cancel function it holds (0: nil);
\* ctx[i] is the context derived by the i-th call of Start and g[i] the
\* position of the goroutine of that call; stops counts the calls of Stop
\* from outside and ev names the last step.
\* Number of calls of Stop from outside the loop in one run.
MaxStops == 2

StartCalls == {1, 2}

RsInit ==
  [n |-> NewNodeAt(0, "u1", ClusterVersion, ClusterVersion),
   ctx |-> <<"none", "none">>, g |-> <<"idle", "idle">>, stops |-> 0, ev |-> ""]

\* go n.Start(ctx): the first call, and a second one once the loop of the
\* first runs
RsStart(i) ==
  /\ rs.g[i] = "idle"
  /\ i = 2 => rs.g[1] \in {"select", "ping"}
  /\ rs' = [rs EXCEPT !.g[i] = "check", !.ev = "Start"]
  /\ UNCHANGED <<nodes, mu, N, ctxs, loop, now, resp, expected, bc, removed, wk>>

\* if n.stop != nil { n.stop(); time.Sleep(n.timeout) }: n.stop is called,
\* not cleared
RsCheck(i) ==
  /\ rs.g[i] = "check"
  /\ rs' = [rs EXCEPT
       !.ctx = IF rs.n.stop # 0 THEN [@ EXCEPT ![rs.n.stop] = "done"] ELSE @,
       !.g[i] = IF rs.n.stop # 0 THEN "sleep" ELSE "assign",
       !.ev = "check"]
  /\ UNCHANGED <<nodes, mu, N, ctxs, loop, now, resp, expected, bc, removed, wk>>

\* time.Sleep returns: a delay, no synchronisation with the other goroutine
RsWake(i) ==
  /\ rs.g[i] = "sleep"
  /\ rs' = [rs EXCEPT !.g[i] = "assign", !.ev = "wake"]
  /\ UNCHANGED <<nodes, mu, N, ctxs, loop, now, resp, expected, bc, removed, wk>>

\* ctx, n.stop = context.WithCancel(ctx); the ticker; the defers
RsAssign(i) ==
  /\ rs.g[i] = "assign"
  /\ rs' = [rs EXCEPT !.ctx[i] = "live", !.n.stop = i, !.g[i] = "select",
                      !.ev = "assign"]
  /\ UNCHANGED <<nodes, mu, N, ctxs, loop, now, resp, expected, bc, removed, wk>>

\* select, case <-t.C, up to the call of n.c.Ping
RsTick(i) ==
  /\ Selecting([pc |-> rs.g[i]])
  /\ rs' = [rs EXCEPT !.g[i] = "ping", !.ev = "tick"]
  /\ UNCHANGED <<nodes, mu, N, ctxs, loop, now, resp, expected, bc, removed, wk>>

\* Ping returned: the result is recorded under n.mu
RsPingReturn(i, ok, nv) ==
  /\ rs.g[i] = "ping"
  /\ rs' = [rs EXCEPT !.n = PingUpdate(@, ok, nv), !.g[i] = "select",
                      !.ev = "ping"]
  /\ UNCHANGED <<nodes, mu, N, ctxs, loop, now, resp, expected, bc, removed, wk>>

\* select, case <-ctx.Done(): return; the deferred n.Stop() runs
RsExit(i) ==
  /\ rs.g[i] = "select"
  /\ rs.ctx[i] = "done"
  /\ rs' = [rs EXCEPT !.n = StopNode(@), !.ctx = StopCtx(@, rs.n),
                      !.g[i] = "done", !.ev = "exit"]
  /\ UNCHANGED <<nodes, mu, N, ctxs, loop, now, resp, expected, bc, removed, wk>>

\* n.Stop() called from outside the loop
RsStop ==
  /\ rs.stops < MaxStops
  /\ rs' = [rs EXCEPT !.n = StopNode(@), !.ctx = StopCtx(@, rs.n),
                      !.stops = @ + 1, !.ev = "Stop"]
  /\ UNCHANGED <<nodes, mu, N, ctxs, loop, now, resp, expected, bc, removed, wk>>

\* ------------------------------------------------------ mutation broadcast
\* Requests are taken with the method and the path value the handler wants;
\* the deadline of the WithTimeout context shows as a worker answering with
\* an error.
\* loadDataSourceHandler, unloadDataSourceHandler, registerObjectStorageHandler
\* and unregisterObjectStorageHandler have the same shape: under s.mu, one
\* goroutine per entry of s.nodes calls the node and sends its error, if any,
\* on the unbuffered errCh; a collector goroutine appends what it receives to
\* errMsg; the handler waits for the WaitGroup, closes errCh and reads errMsg.
MutationOps == {"load", "unload", "register", "unregister"}

\* what a worker answers to a relayed command: success or an error text
RelayAnswers == {NoErr, "boom"}

\* no handler in progress, no goroutine left
BcIdle ==
  [pc |-> "idle", op |-> "", sec |-> Secret, g |-> EmptyMap,
   col |-> [pc |-> "none", cur |-> NoErr], closed |-> FALSE, errMsg |-> <<>>,
   wg |-> 0, called |-> {}, todo |-> {}, got |-> EmptyMap, out |-> <<>>,
   params |-> {}, deadline |-> 0, at |-> "", ent |-> <<>>]

\* Node.LoadDataSource / UnloadDataSource / RegisterObjectStorage /
\* UnregisterObjectStorage: the error returned, given the worker's answer
RelayErr(n, ans) == IF ~IsReady(n) THEN NotReadyMsg ELSE ans

\* the same methods: whether the call goes out to the worker
RelayCalls(n) == IsReady(n)

\* the keys of info.Parameters that RegisterObjectStorage ranges over, in its
\* order
StorageKeys ==
  <<"KEY_ID", "SECRET", "REGION", "ENDPOINT", "USE_SSL", "URL_STYLE",
    "URL_COMPATIBILITY_MODE", "KMS_KEY_ID", "ACCOUNT_ID">>

AllStorageKeys == {StorageKeys[i] : i \in 1..Len(StorageKeys)}

\* the parameter maps of the request bodies, as the sets of the keys they
\* hold (the values have the types the method asserts): all nine keys; the
\* six without a default; one key without a default missing; two of them
\* missing besides one with a default; only keys with a default
ParamInputs ==
  { AllStorageKeys,
    AllStorageKeys \ {"URL_COMPATIBILITY_MODE", "KMS_KEY_ID", "ACCOUNT_ID"},
    AllStorageKeys \ {"REGION"},
    AllStorageKeys \ {"URL_STYLE", "SECRET", "ACCOUNT_ID"},
    {"URL_COMPATIBILITY_MODE", "KMS_KEY_ID"} }

\* the request bodies of an operation: only register carries parameters
ParamsOf(op) == IF op = "register" THEN ParamInputs ELSE {{}}

OptionalKeyNone(k) == FALSE

\* if !ok: the keys for which a default is filled in and the loop continues
OptionalKey(k) == k \in {"URL_COMPATIBILITY_MODE", "KMS_KEY_ID", "ACCOUNT_ID"}

\* the range loop from key i on: the key at which it returns "missing
\* parameter", "" when it runs to its end
RECURSIVE MissingFrom(_, _)
MissingFrom(i, ps) ==
  IF i > Len(StorageKeys) THEN ""
  ELSE IF StorageKeys[i] \notin ps /\ ~OptionalKey(StorageKeys[i]) THEN StorageKeys[i]
  ELSE MissingFrom(i + 1, ps)

\* errors.New("missing parameter: " + k)
MissingParameter(k) ==
  CASE k = "KEY_ID" -> "missing parameter: KEY_ID"
    [] k = "SECRET" -> "missing parameter: SECRET"
    [] k = "REGION" -> "missing parameter: REGION"
    [] k = "ENDPOINT" -> "missing parameter: ENDPOINT"
    [] k = "USE_SSL" -> "missing parameter: USE_SSL"
    [] k = "URL_STYLE" -> "missing parameter: URL_STYLE"
    [] k = "URL_COMPATIBILITY_MODE" -> "missing parameter: URL_COMPATIBILITY_MODE"
    [] k = "KMS_KEY_ID" -> "missing parameter: KMS_KEY_ID"
    [] k = "ACCOUNT_ID" -> "missing parameter: ACCOUNT_ID"

\* Node.RegisterObjectStorage: the error returned for the parameter keys ps,
\* given the worker's answer
RegisterObjectStorage(n, ps, ans) ==
  IF ~IsReady(n) THEN NotReadyMsg
  ELSE IF MissingFrom(1, ps) # "" THEN MissingParameter(MissingFrom(1, ps))
  ELSE ans

\* Node.RegisterObjectStorage: whether n.c.Query is reached
RegisterObjectStorageCalls(n, ps) == IsReady(n) /\ MissingFrom(1, ps) = ""

\* the error of the method the goroutines of operation op call
NodeCallErr(op, n, ps, ans) ==
  IF op = "register" THEN RegisterObjectStorage(n, ps, ans) ELSE RelayErr(n, ans)

\* whether that method reaches the worker
NodeCallGoesOut(op, n, ps) ==
  IF op = "register" THEN RegisterObjectStorageCalls(n, ps) ELSE RelayCalls(n)

\* config.Timeout of New, in seconds (the default)
Timeout == 30

AggregateTimeoutScaled(op, n) == n * Timeout

\* context.WithTimeout(r.Context(), ...): 2*s.timeout in the handlers that
\* call the members concurrently, len(s.nodes)*s.timeout in the two that call
\* them one after the other
AggregateTimeout(op, n) ==
  IF op \in {"status", "list"} THEN n * Timeout ELSE 2 * Timeout

WgDoneNot(w) == w

\* defer wg.Done()
WgDone(w) == w - 1

\* fmt.Errorf("failed to ... on node %s: %w", nn, err): the message names the
\* operation, the node and the error
WrapErr(op, nn, err) == [op |-> op, node |-> nn, err |-> err]

LockSkipped(op) == "free"

\* s.mu.Lock(); defer s.mu.Unlock(): Service.mu is held, by the handler of
\* op, until the handler returns
Lock(op) == op

NodeAfterRelaySetsErr(n, e) == IF e # NoErr THEN [n EXCEPT !.err = e] ELSE n

\* Node.LoadDataSource / UnloadDataSource / RegisterObjectStorage /
\* UnregisterObjectStorage: the Node after the call that returned e: the
\* methods read the Node (IsReady) and write none of its fields
NodeAfterRelay(n, e) == n

\* the handler up to wg.Wait(): lock, wg.Add(len(s.nodes)), the goroutines
BcBegin(op, sec, ps) ==
  /\ Authorized(sec)
  /\ mu = "free"
  /\ bc.pc = "idle"
  /\ bc.col.pc = "none"
  /\ mu' = Lock(op)
  /\ bc' = [BcIdle EXCEPT
       !.pc = "wait", !.op = op, !.sec = sec, !.params = ps,
       !.deadline = AggregateTimeout(op, Cardinality(DOMAIN nodes)),
       !.g = [k \in DOMAIN nodes |-> [pc |-> "call", err |-> NoErr]],
       !.col = [pc |-> "recv", cur |-> NoErr],
       !.wg = Cardinality(DOMAIN nodes)]
  /\ resp' = NoResp
  /\ UNCHANGED <<nodes, N, ctxs, loop, now, expected, removed, wk, rs>>

\* a per-node goroutine: err := node.LoadDataSource(ctx, name). With an
\* error it goes on to send it; without, it logs and returns (the deferred
\* wg.Done()).
GCall(k, ans) ==
  /\ k \in DOMAIN bc.g
  /\ bc.g[k].pc = "call"
  /\ LET n == N[nodes[k]]
         e == NodeCallErr(bc.op, n, bc.params, ans)
     IN /\ N' = [N EXCEPT ![nodes[k]] = NodeAfterRelay(@, e)]
        /\ bc' = [bc EXCEPT
             !.g[k] = [pc |-> IF e # NoErr THEN "send" ELSE "done", err |-> e],
             !.wg = IF e # NoErr THEN @ ELSE WgDone(@),
             !.called = IF NodeCallGoesOut(bc.op, n, bc.params) THEN @ \cup {k} ELSE @]
  /\ resp' = NoResp
  /\ UNCHANGED <<nodes, mu, ctxs, loop, now, expected, removed, wk, rs>>

\* errCh <- fmt.Errorf(...), received by the collector's range loop (the
\* channel is unbuffered: the send completes when the collector has taken the
\* value, before it has appended it); the goroutine then logs and returns:
\* the deferred wg.Done()
GSend(k) ==
  /\ k \in DOMAIN bc.g
  /\ bc.g[k].pc = "send"
  /\ bc.col.pc = "recv"
  /\ bc' = [bc EXCEPT
       !.g[k].pc = "done",
       !.wg = WgDone(@),
       !.col = [pc |-> "append", cur |-> WrapErr(bc.op, k, bc.g[k].err)]]
  /\ resp' = NoResp
  /\ UNCHANGED <<nodes, mu, N, ctxs, loop, now, expected, removed, wk, rs>>

\* the collector: errMsg += ";\n" (when not empty); errMsg += err.Error().
\* errMsg is a variable of the handler's call: once the handler has returned
\* nothing reads it.
ColAppend ==
  /\ bc.col.pc = "append"
  /\ bc' = [bc EXCEPT
       !.errMsg = IF bc.pc = "idle" THEN <<>> ELSE Append(@, bc.col.cur),
       !.col = [pc |-> "recv", cur |-> NoErr]]
  /\ resp' = NoResp
  /\ UNCHANGED <<nodes, mu, N, ctxs, loop, now, expected, removed, wk, rs>>

\* the collector's range loop ends on the closed channel
ColExit ==
  /\ bc.col.pc = "recv"
  /\ bc.closed
  /\ bc' = [bc EXCEPT !.col = [pc |-> "none", cur |-> NoErr], !.closed = FALSE]
  /\ resp' = NoResp
  /\ UNCHANGED <<nodes, mu, N, ctxs, loop, now, expected, removed, wk, rs>>

\* wg.Wait() returns; close(errCh)
HClose ==
  /\ bc.pc = "wait"
  /\ bc.wg = 0
  /\ bc' = [bc EXCEPT !.pc = "check", !.closed = TRUE]
  /\ resp' = NoResp
  /\ UNCHANGED <<nodes, mu, N, ctxs, loop, now, expected, removed, wk, rs>>

\* if errMsg != "" { http.Error(w, errMsg, 500) } else 200; the deferred
\* s.mu.Unlock(). The collector, when still running, goes on by itself.
HRespond ==
  /\ bc.pc = "check"
  /\ resp' = IF bc.errMsg # <<>> THEN Response("mutation", 500, bc.errMsg, bc.sec)
             ELSE Response("mutation", 200, "success", bc.sec)
  /\ mu' = "free"
  /\ bc' = [BcIdle EXCEPT !.col = bc.col, !.closed = bc.closed]
  /\ UNCHANGED <<nodes, N, ctxs, loop, now, expected, removed, wk, rs>>

\* ---------------------------------------------------------- storage listing
\* what a worker answers to the registered_object_storages query: the names
\* of its storages, or an error
StorageAnswers == {<<>>, <<"s3a">>, <<"s3a", "s3b">>}

ListErrFreshError(n, ok) ==
  IF ~IsReady(n) THEN "node is not ready (not errNotReady)" ELSE IF ok THEN NoErr ELSE "boom"

\* Node.RegisteredStorages: the error returned (errNotReady without a call)
ListErr(n, ok) == IF ~IsReady(n) THEN NotReadyMsg ELSE IF ok THEN NoErr ELSE "boom"

\* for _, s := range storage { s.Node = name; storages = append(storages, s) }
TagStorages(name, ss) == [i \in 1..Len(ss) |-> [node |-> name, name |-> ss[i]]]

ListFailurePartial(e, out, sec) == Response("list", 200, out, sec)

\* http.Error(w, err.Error(), 500); return: the storages gathered so far
\* (out) are dropped
ListFailure(e, out, sec) == Response("list", 500, e, sec)

\* registeredStoragesHandler, GET, up to the loop: lock; the map is ranged
\* over in an order the runtime picks
LsBegin(sec) ==
  /\ Authorized(sec)
  /\ mu = "free"
  /\ bc.pc = "idle"
  /\ bc.col.pc = "none"
  /\ mu' = "list"
  /\ bc' = [BcIdle EXCEPT !.pc = "list", !.op = "list", !.sec = sec,
                          !.todo = DOMAIN nodes,
                          !.deadline = AggregateTimeout("list", Cardinality(DOMAIN nodes))]
  /\ resp' = NoResp
  /\ UNCHANGED <<nodes, N, ctxs, loop, now, expected, removed, wk, rs>>

\* one iteration: node.RegisteredStorages(ctx); errNotReady: continue; any
\* other error: 500 and return; else the storages are appended
LsStep(k, ok, ss) ==
  /\ bc.pc = "list"
  /\ k \in bc.todo
  /\ LET n == N[nodes[k]]
         e == ListErr(n, ok)
     IN IF e = NotReadyMsg
          THEN /\ bc' = [bc EXCEPT !.todo = @ \ {k}]
               /\ resp' = NoResp
               /\ UNCHANGED mu
          ELSE IF e # NoErr
            THEN /\ resp' = ListFailure(e, bc.out, bc.sec)
                 /\ mu' = "free"
                 /\ bc' = BcIdle
            ELSE /\ bc' = [bc EXCEPT !.todo = @ \ {k}, !.called = @ \cup {k},
                                     !.got = MapPut(@, k, ss),
                                     !.out = @ \o TagStorages(k, ss)]
                 /\ resp' = NoResp
                 /\ UNCHANGED mu
  /\ UNCHANGED <<nodes, N, ctxs, loop, now, expected, removed, wk, rs>>

\* after the loop: json.NewEncoder(w).Encode(storages); the deferred Unlock
LsEnd ==
  /\ bc.pc = "list"
  /\ bc.todo = {}
  /\ resp' = Response("list", 200, bc.out, bc.sec)
  /\ mu' = "free"
  /\ bc' = BcIdle
  /\ UNCHANGED <<nodes, N, ctxs, loop, now, expected, removed, wk, rs>>

\* --------------------------------------------------------------- GET /node
\* Service.nodeHandler, GET, up to the loop: lock (the unlock is deferred);
\* the map is ranged over in an order the runtime picks
GetBegin(sec) ==
  /\ Authorized(sec)
  /\ mu = "free"
  /\ bc.pc = "idle"
  /\ bc.col.pc = "none"
  /\ mu' = "get"
  /\ bc' = [BcIdle EXCEPT !.pc = "get", !.op = "get", !.sec = sec,
                          !.todo = DOMAIN nodes]
  /\ resp' = NoResp
  /\ UNCHANGED <<nodes, N, ctxs, loop, now, expected, removed, wk, rs>>

\* one getter call of the entry of member k; after the fourth the entry is
\* appended
GetRead(k) ==
  /\ bc.pc = "get"
  /\ k \in bc.todo
  /\ bc.at \in {"", k}
  /\ LET n == N[nodes[k]]
         ent == Append(bc.ent, NodeGetter(n, Len(bc.ent)))
     IN bc' = IF Len(ent) < 4
                THEN [bc EXCEPT !.at = k, !.ent = ent]
                ELSE [bc EXCEPT !.at = "", !.ent = <<>>, !.todo = @ \ {k},
                                !.out = Append(@, NodeStatus(k, n, ent))]
  /\ resp' = NoResp
  /\ UNCHANGED <<nodes, mu, N, ctxs, loop, now, expected, removed, wk, rs>>

\* after the loop: the Content-Type header, json.NewEncoder(w).Encode(nodes);
\* the deferred Unlock
GetEnd ==
  /\ bc.pc = "get"
  /\ bc.todo = {}
  /\ resp' = JsonResponse("nodes", {bc.out[i] : i \in 1..Len(bc.out)}, bc.sec)
  /\ mu' = "free"
  /\ bc' = BcIdle
  /\ UNCHANGED <<nodes, N, ctxs, loop, now, expected, removed, wk, rs>>

\* ------------------------------------------------------ data-source status
\* what a worker answers to the data-source status query: a status, or an
\* error
StatusAnswers == {[err |-> NoErr, status |-> "attached"], [err |-> "boom", status |-> ""]}

\* Node.DataSourceStatus: (status, error), given the worker's answer; a Node
\* that is not ready is not called
NodeDataSourceStatus(n, ans) ==
  IF ~IsReady(n) THEN [err |-> NotReadyMsg, status |-> ""] ELSE ans

DataSourceStatusNoError(nn, r) ==
  IF r.err # NoErr THEN [node |-> nn, status |-> "error", error |-> ""]
  ELSE [node |-> nn, status |-> r.status, error |-> ""]

DataSourceStatusUnnamed(nn, r) ==
  IF r.err # NoErr THEN [node |-> "", status |-> "error", error |-> r.err]
  ELSE [node |-> "", status |-> r.status, error |-> ""]

\* the DataSourceStatus record the handler appends for node nn
DataSourceStatus(nn, r) ==
  IF r.err # NoErr THEN [node |-> nn, status |-> "error", error |-> r.err]
  ELSE [node |-> nn, status |-> r.status, error |-> ""]

\* dataSourceStatusHandler, GET, up to the loop: lock; the map is ranged over
\* in an order the runtime picks
StBegin(sec) ==
  /\ Authorized(sec)
  /\ mu = "free"
  /\ bc.pc = "idle"
  /\ bc.col.pc = "none"
  /\ mu' = "status"
  /\ bc' = [BcIdle EXCEPT !.pc = "status", !.op = "status", !.sec = sec,
                          !.todo = DOMAIN nodes,
                          !.deadline = AggregateTimeout("status", Cardinality(DOMAIN nodes))]
  /\ resp' = NoResp
  /\ UNCHANGED <<nodes, N, ctxs, loop, now, expected, removed, wk, rs>>

\* one iteration: node.DataSourceStatus(ctx, name); a record is appended
\* whether or not the call returned an error
StStep(k, ans) ==
  /\ bc.pc = "status"
  /\ k \in bc.todo
  /\ LET n == N[nodes[k]]
         r == NodeDataSourceStatus(n, ans)
     IN bc' = [bc EXCEPT !.todo = @ \ {k},
                         !.called = IF IsReady(n) THEN @ \cup {k} ELSE @,
                         !.got = MapPut(@, k, r),
                         !.out = Append(@, DataSourceStatus(k, r))]
  /\ resp' = NoResp
  /\ UNCHANGED <<nodes, mu, N, ctxs, loop, now, expected, removed, wk, rs>>

\* after the loop: json.NewEncoder(w).Encode(ss), status 200; the
\* Content-Type header is set after the body was written; the deferred Unlock
StEnd ==
  /\ bc.pc = "status"
  /\ bc.todo = {}
  /\ resp' = Response("status", 200, bc.out, bc.sec)
  /\ mu' = "free"
  /\ bc' = BcIdle
  /\ UNCHANGED <<nodes, N, ctxs, loop, now, expected, removed, wk, rs>>

\* --------------------------------------------------- worker process (main)
\* conf.Cluster.NodeUrl and the build's Version of the worker process
WorkerUrl == "u1"
WorkerVersion == "v1"

\* the process at the start of main: ctx of signal.NotifyContext is live,
\* nothing deferred, the Source has returned nothing yet
WorkerProcess(name) ==
  [pc |-> "init", name |-> name, sig |-> "live", exit |-> "", unreg |-> "none",
   ret |-> [op |-> "", status |-> 0, body |-> "", readOk |-> TRUE, err |-> NoErr, detail |-> ""]]

\* RegisterNode, on the response r: status 200, Content-Type
\* application/json and a body that decodes
RegisterNodeOk(r) ==
  r.status = 200 /\ r.ctype = "application/json" /\ r.body = "nodeConfig"

\* main: hc, err = RegisterNode(ctx, conf.Cluster, conf). With ctx already
\* cancelled the client sends nothing and returns the context's error. On an
\* error: os.Exit(1); else defer UnregisterNode(ctx, conf.Cluster), its
\* arguments evaluated here: ctx is the signal context.
WRegisterNode ==
  /\ wk.pc = "init"
  /\ IF wk.sig = "done"
       THEN /\ wk' = [wk EXCEPT !.pc = "exited", !.exit = "os.Exit"]
            /\ resp' = NoResp
            /\ UNCHANGED <<nodes, mu, N, ctxs, loop, now, expected, bc, removed, rs>>
       ELSE /\ NodePost(wk.name, WorkerUrl, WorkerVersion, Secret)
            /\ wk' = IF RegisterNodeOk(resp')
                       THEN [wk EXCEPT !.pc = "running"]
                       ELSE [wk EXCEPT !.pc = "exited", !.exit = "os.Exit"]

\* os.Interrupt arrives: the context of signal.NotifyContext is cancelled
WSignal ==
  /\ wk.pc \in {"init", "running"}
  /\ wk.sig = "live"
  /\ wk' = [wk EXCEPT !.sig = "done"]
  /\ resp' = NoResp
  /\ UNCHANGED <<nodes, mu, N, ctxs, loop, now, expected, bc, removed, rs>>

\* <-ctx.Done(); srv.Shutdown(ctx) with a fresh 5 s context: on an error
\* os.Exit(1), which runs no deferred call; else main returns
WShutdown(ok) ==
  /\ wk.pc = "running"
  /\ wk.sig = "done"
  /\ wk' = IF ok THEN [wk EXCEPT !.pc = "defers"]
            ELSE [wk EXCEPT !.pc = "exited", !.exit = "os.Exit"]
  /\ resp' = NoResp
  /\ UNCHANGED <<nodes, mu, N, ctxs, loop, now, expected, bc, removed, rs>>

\* the deferred UnregisterNode(ctx, conf.Cluster), ctx being the signal
\* context: with that context cancelled http.DefaultClient.Do sends nothing
\* and returns the context's error; else DELETE /node?name=... is sent
WUnregisterNode ==
  /\ wk.pc = "defers"
  /\ IF wk.sig = "done"
       THEN /\ wk' = [wk EXCEPT !.pc = "exited", !.exit = "return", !.unreg = "not sent"]
            /\ resp' = NoResp
            /\ UNCHANGED <<nodes, mu, N, ctxs, loop, now, expected, bc, removed, rs>>
       ELSE /\ NodeDelete(wk.name, Secret)
            /\ wk' = [wk EXCEPT !.pc = "exited", !.exit = "return", !.unreg = "sent"]

\* the process is started again with the same configuration
WRestart ==
  /\ wk.pc = "exited"
  /\ wk' = WorkerProcess(wk.name)
  /\ resp' = NoResp
  /\ UNCHANGED <<nodes, mu, N, ctxs, loop, now, expected, bc, removed, rs>>

\* ------------------------------------------------- cluster Source (worker)
SourceOps ==
  {"nodes", "load", "unload", "status", "registerStorage", "unregisterStorage", "storages"}

\* what the management node may answer: status code, body as received, and
\* whether io.ReadAll of the body returned without error
SourceStatuses == {200, 403, 500}
SourceBodies == {"", "Unauthorized", "boom"}

\* res.Status
StatusText(status) ==
  IF status = 403 THEN "403 Forbidden"
  ELSE IF status = 500 THEN "500 Internal Server Error"
  ELSE "200 OK"

\* the text before ": %s" in each method's fmt.Errorf
SourcePrefix(op) ==
  CASE op = "nodes" -> "load nodes"
    [] op = "load" -> "load data source"
    [] op = "unload" -> "load data source"
    [] op = "status" -> "retrieve data source"
    [] op = "registerStorage" -> "register storage"
    [] op = "unregisterStorage" -> "unregister object storage"
    [] op = "storages" -> "registered s3"

\* the condition under which errMsg = string(b) replaces res.Status:
\* Source.Nodes tests err != nil, the other methods err == nil
SourceUsesBody(op, body, readOk) ==
  IF op = "nodes" THEN ~readOk /\ body # "" ELSE readOk /\ body # ""

\* Source.Nodes, LoadDataSource, UnloadDataSource, DataSourceStatus,
\* RegisterObjectStorage, UnregisterObjectStorage, RegisteredObjectStorages:
\* what the method returns for a response (a 200 body is taken to decode)
SourceReturn(op, status, body, readOk) ==
  [op |-> op, status |-> status, body |-> body, readOk |-> readOk,
   err |-> IF status # 200 THEN SourcePrefix(op) ELSE NoErr,
   detail |-> IF status = 200 THEN ""
              ELSE IF SourceUsesBody(op, body, readOk) THEN body
              ELSE StatusText(status)]

\* a runtime operation of the Source is called and the management node's
\* response comes back
SourceCall(op, status, body, readOk) ==
  /\ wk.pc = "running"
  /\ wk' = [wk EXCEPT !.ret = SourceReturn(op, status, body, readOk)]
  /\ resp' = NoResp
  /\ UNCHANGED <<nodes, mu, N, ctxs, loop, now, expected, bc, removed, rs>>

\* ------------------------------------------------------------ specification
Init ==
  /\ nodes = EmptyMap
  /\ mu = "free"
  /\ N = <<>>
  /\ ctxs = <<>>
  /\ loop = <<>>
  /\ now = 0
  /\ resp = NoResp
  /\ expected = EmptyMap
  /\ bc = BcIdle
  /\ removed = {}
  /\ wk = WorkerProcess("a")
  /\ rs = RsInit

Allocated == 1..Len(N)

Next ==
  \/ \E sec \in SecretInputs : Unauthorized(sec)
  \/ \E name \in NameInputs, url \in UrlInputs, v \in VersionInputs, sec \in SecretInputs :
        NodePost(name, url, v, sec) /\ UNCHANGED wk
  \/ \E nn \in DeleteInputs, sec \in SecretInputs : NodeDelete(nn, sec) /\ UNCHANGED wk
  \/ \E h \in Allocated : StartBegin(h)
  \/ \E h \in Allocated, ok \in BOOLEAN, nv \in Versions : Tick(h, ok, nv)
  \/ \E h \in Allocated : PingReturn(h)
  \/ \E h \in Allocated : PingCancelled(h)
  \/ \E h \in Allocated : LoopExit(h)

\* the registry and the health loops
Spec == Init /\ [][Next]_vars

\* The registry after POST /node?name=a&url=u1&version=v, the first tick of
\* that node's health loop (the worker answering ok, nv) and
\* POST /node?url=u2&version=w: states Spec reaches in five steps.
InitRegistered ==
  \E v \in VersionInputs, w \in VersionInputs, ok \in BOOLEAN, nv \in Versions :
    /\ nodes = MapPut(MapPut(EmptyMap, "a", 1), "u2", 2)
    /\ mu = "free"
    /\ N = <<[PingUpdateAt(1, NewNodeAt(0, "u1", v, ClusterVersion), ok, nv) EXCEPT !.stop = 1],
             NewNodeAt(1, "u2", w, ClusterVersion)>>
    /\ ctxs = <<"live", "none">>
    /\ loop = <<Goroutine("select"), Goroutine("start")>>
    /\ now = 1
    /\ resp = Response("node", 200, "nodeConfig", Secret)
    /\ expected = MapPut(MapPut(EmptyMap, "a", "u1"), "u2", "u2")
    /\ bc = BcIdle
    /\ removed = {}
    /\ wk = WorkerProcess("a")
    /\ rs = RsInit

Broadcast ==
  \/ \E op \in MutationOps, sec \in SecretInputs :
       \E ps \in ParamsOf(op) : BcBegin(op, sec, ps)
  \/ \E k \in DOMAIN bc.g, ans \in RelayAnswers : GCall(k, ans)
  \/ \E k \in DOMAIN bc.g : GSend(k)
  \/ ColAppend
  \/ ColExit
  \/ HClose
  \/ HRespond
  \/ \E sec \in SecretInputs : LsBegin(sec)
  \/ \E k \in bc.todo, ok \in BOOLEAN, ss \in StorageAnswers : LsStep(k, ok, ss)
  \/ LsEnd
  \/ \E sec \in SecretInputs : StBegin(sec)
  \/ \E k \in bc.todo, ans \in StatusAnswers : StStep(k, ans)
  \/ StEnd
  \/ \E sec \in SecretInputs : GetBegin(sec)
  \/ \E k \in bc.todo : GetRead(k)
  \/ GetEnd

NextBroadcast ==
  \/ Broadcast
  \/ \E sec \in SecretInputs : Unauthorized(sec)
  \/ \E h \in Allocated : StartBegin(h)
  \/ \E h \in Allocated, ok \in BOOLEAN, nv \in Versions : Tick(h, ok, nv)
  \/ \E h \in Allocated : PingReturn(h)

\* the broadcasts and the listing over a registry of two members, with the
\* health loops running
SpecBroadcast == InitRegistered /\ [][NextBroadcast]_vars

\* the steps of the goroutines of a broadcast in progress: the per-node
\* goroutines, the collector and the handler after its first statements
BroadcastStep ==
  \/ \E k \in DOMAIN bc.g, ans \in RelayAnswers : GCall(k, ans)
  \/ \E k \in DOMAIN bc.g : GSend(k)
  \/ ColAppend
  \/ ColExit
  \/ HClose
  \/ HRespond
  \/ \E k \in bc.todo, ok \in BOOLEAN, ss \in StorageAnswers : LsStep(k, ok, ss)
  \/ LsEnd
  \/ \E k \in bc.todo, ans \in StatusAnswers : StStep(k, ans)
  \/ StEnd
  \/ \E k \in bc.todo : GetRead(k)
  \/ GetEnd

\* the same, where the scheduler lets a goroutine that can run take a step
\* and every call to a worker returns (each is bounded by its context)
SpecBroadcastFair == SpecBroadcast /\ WF_vars(BroadcastStep)

NextAll == Next \/ Broadcast

\* every handler and goroutine, from a registry of two members
SpecAll == InitRegistered /\ [][NextAll]_vars

\* a worker process starting against an empty registry
InitWorker ==
  /\ nodes = EmptyMap
  /\ mu = "free"
  /\ N = <<>>
  /\ ctxs = <<>>
  /\ loop = <<>>
  /\ now = 0
  /\ resp = NoResp
  /\ expected = EmptyMap
  /\ bc = BcIdle
  /\ removed = {}
  /\ \E name \in NameInputs : wk = WorkerProcess(name)
  /\ rs = RsInit

NextWorker ==
  \/ WRegisterNode
  \/ WSignal
  \/ \E ok \in BOOLEAN : WShutdown(ok)
  \/ WUnregisterNode
  \/ WRestart
  \/ \E h \in Allocated : StartBegin(h)
  \/ \E h \in Allocated, ok \in BOOLEAN, nv \in Versions : Tick(h, ok, nv)
  \/ \E h \in Allocated : PingReturn(h)
  \/ \E h \in Allocated : PingCancelled(h)
  \/ \E h \in Allocated : LoopExit(h)

\* one worker process from start to exit, restarted, and the management node
\* it registers with
SpecWorker == InitWorker /\ [][NextWorker]_vars

\* the worker process after RegisterNode succeeded against an empty registry:
\* the state SpecWorker reaches in one step
InitSource ==
  \E name \in NameInputs :
    /\ nodes = MapPut(EmptyMap, IF name = "" THEN WorkerUrl ELSE name, 1)
    /\ mu = "free"
    /\ N = <<NewNodeAt(0, WorkerUrl, WorkerVersion, ClusterVersion)>>
    /\ ctxs = <<"none">>
    /\ loop = <<Goroutine("start")>>
    /\ now = 0
    /\ resp = JsonResponse("node", "nodeConfig", Secret)
    /\ expected = MapPut(EmptyMap, IF name = "" THEN WorkerUrl ELSE name, WorkerUrl)
    /\ bc = BcIdle
    /\ removed = {}
    /\ wk = [WorkerProcess(name) EXCEPT !.pc = "running"]
    /\ rs = RsInit

NextSource ==
  \E op \in SourceOps, st \in SourceStatuses, b \in SourceBodies, readOk \in BOOLEAN :
    SourceCall(op, st, b, readOk)

\* the runtime operations of the worker's Source, over the responses the
\* management node may give
SpecSource == InitSource /\ [][NextSource]_vars

NextRegister ==
  \/ \E name \in NameInputs, url \in UrlInputs, v \in RegisterVersions :
        NodePost(name, url, v, Secret) /\ UNCHANGED wk
  \/ \E h \in Allocated : StartBegin(h)
  \/ \E h \in Allocated, ok \in BOOLEAN, nv \in Versions : Tick(h, ok, nv)
  \/ \E h \in Allocated : PingReturn(h)
  \/ \E h \in Allocated : PingCancelled(h)
  \/ \E h \in Allocated : LoopExit(h)

\* registrations, with and without version, and the health loops
SpecRegister == Init /\ [][NextRegister]_vars

NextRestart ==
  \/ \E i \in StartCalls : RsStart(i)
  \/ \E i \in StartCalls : RsCheck(i)
  \/ \E i \in StartCalls : RsWake(i)
  \/ \E i \in StartCalls : RsAssign(i)
  \/ \E i \in StartCalls : RsTick(i)
  \/ \E i \in StartCalls, ok \in BOOLEAN, nv \in Versions : RsPingReturn(i, ok, nv)
  \/ \E i \in StartCalls : RsExit(i)
  \/ RsStop

\* one Node, its Start called twice and its Stop called from outside
SpecRestart == Init /\ [][NextRestart]_vars

\* ================================================================== claims
\* a health loop that goes on pinging: its goroutine has not returned and
\* its context is not cancelled
LiveLoop(h) == loop[h].pc # "done" /\ ctxs[h] # "done"

\* the per-node calls of the broadcast b that returned an error
Failed(b) == {k \in DOMAIN b.g : b.g[k].err # NoErr}

\* the step in which a mutation broadcast writes its response
MutationResponds == bc.pc = "check" /\ bc'.pc = "idle"

\* the step in which the storage listing writes its response
ListingResponds == bc.pc = "list" /\ bc'.pc = "idle"

\* the entries of the combined error message m that name node k
EntriesOf(m, k) == {i \in 1..Len(m) : m[i].node = k}

\* C1: after every sequence of register and deregister calls the member
\* names are exactly the names whose last operation was a successful
\* register not followed by a deregister of that name nor superseded by a
\* later register call carrying the same URL.
C1_MembershipMatchesRule == DOMAIN nodes = DOMAIN expected

\* C2: after two register calls with the same URL at most one health loop
\* pinging that URL is live.
C2_OneLoopPerUrl ==
  \A u \in Urls : Cardinality({h \in Allocated : N[h].url = u /\ LiveLoop(h)}) <= 1

\* C3: every entry of members has its own live health loop (the goroutine of
\* its Node, not cancelled), and no two entries share a Node or a
\* cancellation handle; a Node's stop is nil or cancels its own context.
C3_MembersHaveOwnLiveLoop ==
  \A k \in DOMAIN nodes :
    /\ LiveLoop(nodes[k])
    /\ N[nodes[k]].stop \in {0, nodes[k]}
    /\ \A k2 \in DOMAIN nodes \ {k} : nodes[k2] # nodes[k]

\* two members, both health loops past context.WithCancel
C3_Witness ==
  /\ Cardinality(DOMAIN nodes) = 2
  /\ \A k \in DOMAIN nodes : N[nodes[k]].stop # 0

\* C4: a mutation broadcast in which exactly one per-node call returned an
\* error answers with a failure whose message names that node with its error
\* text and names no node whose call succeeded.
C4_OneFailureReported ==
  [][(MutationResponds /\ Cardinality(Failed(bc)) = 1) =>
       /\ resp'.status # 200
       /\ \A k \in Failed(bc) :
            \E i \in EntriesOf(resp'.body, k) : resp'.body[i].err = bc.g[k].err
       /\ \A i \in 1..Len(resp'.body) : resp'.body[i].node \in Failed(bc)]_vars

\* C5: a mutation broadcast in which k >= 1 per-node calls failed answers
\* with a combined message that lists each of the k failures exactly once,
\* under its node name: no error is lost.
C5_EveryFailureListedOnce ==
  [][(MutationResponds /\ Failed(bc) # {}) =>
       /\ resp'.status # 200
       /\ Len(resp'.body) = Cardinality(Failed(bc))
       /\ \A k \in Failed(bc) :
            /\ Cardinality(EntriesOf(resp'.body, k)) = 1
            /\ \A i \in EntriesOf(resp'.body, k) : resp'.body[i].err = bc.g[k].err]_vars

\* C6: a mutation broadcast that reaches a member that is not ready makes no
\* network call to it, and the response reports that member as a failure
\* with the "not ready" reason.
C6_NotReadyNoCallAndReported ==
  [][/\ \A k \in DOMAIN bc.g :
          (bc.g[k].pc = "call" /\ bc'.pc = "wait" /\ bc'.g[k].pc # "call"
             /\ ~IsReady(N[nodes[k]]))
            => (k \notin bc'.called /\ bc'.g[k].err = NotReadyMsg)
     /\ MutationResponds =>
          \A k \in DOMAIN bc.g :
            bc.g[k].err = NotReadyMsg =>
              /\ k \notin bc.called
              /\ resp'.status # 200
              /\ \E i \in EntriesOf(resp'.body, k) : resp'.body[i].err = NotReadyMsg]_vars

\* C7: the storage listing skips a member that is not ready (no call, no
\* error); an error response comes only from a ready member; and a listing
\* that ends without error returns, for each member that was ready, exactly
\* the storages it answered, tagged with its node name, and nothing else.
C7_ListingSkipsNotReady ==
  [][/\ \A k \in bc.todo :
          (bc.pc = "list" /\ ~IsReady(N[nodes[k]]) /\ bc'.pc = "list" /\ k \notin bc'.todo)
            => (k \notin bc'.called /\ bc'.out = bc.out /\ resp' = NoResp)
     /\ (ListingResponds /\ resp'.status # 200) =>
          \E k \in bc.todo : IsReady(N[nodes[k]])
     /\ (ListingResponds /\ resp'.status = 200) =>
          /\ \A i \in 1..Len(resp'.body) : resp'.body[i].node \in bc.called
          /\ \A k \in bc.called :
               SelectSeq(resp'.body, LAMBDA e : e.node = k) = TagStorages(k, bc.got[k])
          /\ \A k \in DOMAIN nodes \ bc.called : EntriesOf(resp'.body, k) = {}]_vars

\* a listing answered 200 with storages while a member is not ready
C7_Witness ==
  /\ resp.kind = "list"
  /\ resp.status = 200
  /\ Len(resp.body) > 0
  /\ \E k \in DOMAIN nodes : ~IsReady(N[nodes[k]])

\* C8: for every Node, IsReady is true exactly when its last error is nil
\* and its reported version equals the version configured for the cluster.
C8_ReadyIffNoErrorAndVersion ==
  \A h \in Allocated :
    IsReady(N[h]) <=> (N[h].err = NoErr /\ N[h].version = ClusterVersion)

\* one Node with an error and the cluster's version, another without error
\* and with a different version
C8_Witness ==
  /\ \E h \in Allocated : N[h].err # NoErr /\ N[h].version = ClusterVersion
  /\ \E h \in Allocated : N[h].err = NoErr /\ N[h].version # ClusterVersion

\* C9: when a tick's ping has failed the Node is not ready from the end of
\* that tick, and its error stays until a ping succeeds; when a tick's ping
\* has succeeded with the cluster's version the Node is ready from the end
\* of that tick.
C9_ReadinessFollowsTicks ==
  [][\A h \in Allocated :
       LET returned == loop[h].pc = "ping" /\ loop'[h].pc = "select" IN
       /\ (returned /\ ~loop[h].ok) => ~IsReady(N'[h])
       /\ (returned /\ loop[h].ok /\ loop[h].nv = ClusterVersion) => IsReady(N'[h])
       /\ (N[h].err # NoErr /\ N'[h].err = NoErr) => (returned /\ loop[h].ok)]_vars

\* a Node whose ping failed and whose next ping is coming back successful
C9_Witness ==
  \E h \in Allocated :
    /\ N[h].err # NoErr
    /\ loop[h].pc = "ping"
    /\ loop[h].ok
    /\ loop[h].nv = ClusterVersion
    /\ h \in {nodes[k] : k \in DOMAIN nodes}

\* C10: a request whose secret is not the configured one is answered 403
\* and changes nothing: membership, Nodes, health loops, lock and broadcast
\* state stay as they are, and no handler runs on its behalf.
C10_RejectedBeforeHandlers ==
  [][/\ resp'.secret # Secret =>
          /\ resp'.status = 403
          /\ UNCHANGED <<nodes, mu, N, ctxs, loop, now, expected, bc, removed, wk, rs>>
     /\ bc'.sec = Secret]_vars

\* a request rejected while a broadcast is waiting for its goroutines
C10_Witness ==
  /\ resp.kind = "reject"
  /\ resp.status = 403
  /\ bc.pc = "wait"
  /\ Cardinality(DOMAIN nodes) = 2

\* the step in which the data-source status handler writes its response
StatusResponds == bc.pc = "status" /\ bc'.pc = "idle"

\* the registry key of the worker process wk
WorkerKey == IF wk.name = "" THEN WorkerUrl ELSE wk.name

\* C11: a DELETE /node for a name that is a member answers 200, removes
\* that entry and no other, stops that Node's health loop and leaves every
\* other Node and loop as it was; for a name that is not a member it answers
\* 404 "node not found" and leaves membership, Nodes and loops unchanged.
C11_DeregisterStopsAndRemoves ==
  [][\A nn \in DeleteInputs \ {""} :
       NodeDelete(nn, Secret) =>
         IF nn \in DOMAIN nodes
           THEN /\ resp'.status = 200
                /\ DOMAIN nodes' = DOMAIN nodes \ {nn}
                /\ \A k \in DOMAIN nodes' : nodes'[k] = nodes[k]
                /\ loop'[nodes[nn]].pc = "done" \/ ctxs'[nodes[nn]] = "done"
                /\ \A h \in Allocated \ {nodes[nn]} :
                     N'[h] = N[h] /\ ctxs'[h] = ctxs[h] /\ loop'[h] = loop[h]
           ELSE /\ resp'.status = 404
                /\ resp'.body = "node not found"
                /\ UNCHANGED <<nodes, N, ctxs, loop>>]_vars

\* C12: once a DELETE /node of a Node has completed, no ping is issued to
\* that worker any more, and the Node's loop, when it is running, runs on a
\* cancelled context, so that it ends at its next select.
C12_DeregisteredLoopCancelled ==
  [][\A h \in removed :
       /\ ~(loop[h].pc = "select" /\ loop'[h].pc = "ping")
       /\ loop'[h].pc = "select" => ctxs'[h] = "done"]_vars

\* C13: whenever the management node answers the worker's POST /node with
\* 200, the response is the node configuration as JSON and the worker's
\* RegisterNode succeeds: the process goes on running.
C13_SuccessReturnsConfig ==
  [][(wk.pc = "init" /\ resp'.kind = "node" /\ resp'.status = 200) =>
       /\ resp'.ctype = "application/json"
       /\ resp'.body = "nodeConfig"
       /\ wk'.pc = "running"]_vars

\* C14: while a per-node call of a broadcast, of the status query or of the
\* listing is still to return, Service.mu is free, so that a POST or DELETE
\* /node can take it.
C14_LockFreeDuringCalls ==
  (\/ bc.pc = "wait" /\ \E k \in DOMAIN bc.g : bc.g[k].pc = "call"
   \/ bc.pc \in {"list", "status"} /\ bc.todo # {})
    => mu = "free"

\* C15: when a mutation broadcast answers, every member's per-node call has
\* been made and has returned, whatever the other calls returned; the
\* members that were ready were called over the network; and with a failed
\* call the answer is a failure (500) that carries the failures only.
C15_AllCalledAndFailureOverall ==
  [][MutationResponds =>
       /\ DOMAIN bc.g = DOMAIN nodes
       /\ \A k \in DOMAIN bc.g : bc.g[k].pc = "done"
       /\ \A k \in DOMAIN bc.g : bc.g[k].err # NotReadyMsg <=> k \in bc.called
       /\ resp'.status \in {200, 500}
       /\ Failed(bc) # {} =>
            /\ resp'.status = 500
            /\ \A i \in 1..Len(resp'.body) : resp'.body[i].node \in Failed(bc)]_vars

\* C16 as stated: the data-source status endpoint answers with a non-success
\* status when the status call failed on a member, not-ready members
\* included, and with success only when every member's call succeeded.
C16_StatusFailsWhenAnyFails ==
  [][StatusResponds =>
       (resp'.status = 200 <=> \A k \in DOMAIN bc.got : bc.got[k].err = NoErr)]_vars

\* C16, amended: the data-source status endpoint answers 200 whatever the
\* per-node calls returned; a member whose call failed, not-ready members
\* included, has in the body a record with status "error" and its error
\* text, and a member whose call succeeded a record with the status it
\* reported and no error.
C16_StatusReportsErrorsInRecords ==
  [][StatusResponds =>
       /\ resp'.status = 200
       /\ \A k \in DOMAIN bc.got :
            \E i \in EntriesOf(resp'.body, k) :
              IF bc.got[k].err # NoErr
                THEN resp'.body[i].status = "error" /\ resp'.body[i].error = bc.got[k].err
                ELSE resp'.body[i].status = bc.got[k].status /\ resp'.body[i].error = ""]_vars

\* a status query answered 200 although a member was not ready and another
\* answered with an error
C16_Witness ==
  /\ resp.kind = "status"
  /\ resp.status = 200
  /\ \E i \in 1..Len(resp.body) : resp.body[i].error = NotReadyMsg
  /\ \E i \in 1..Len(resp.body) : resp.body[i].error = "boom"

\* C17: a data-source status query answers with exactly one record per
\* member, under that member's name, with the status it reported or with its
\* error; and the query leaves nothing behind: membership, Nodes and loops
\* are as before and the handler's state is gone.
C17_OneRecordPerMember ==
  [][StatusResponds =>
       /\ DOMAIN bc.got = DOMAIN nodes
       /\ Len(resp'.body) = Cardinality(DOMAIN nodes)
       /\ \A k \in DOMAIN nodes :
            /\ Cardinality(EntriesOf(resp'.body, k)) = 1
            /\ \A i \in EntriesOf(resp'.body, k) :
                 \/ bc.got[k].err = NoErr /\ resp'.body[i].status = bc.got[k].status
                 \/ bc.got[k].err # NoErr /\ resp'.body[i].error = bc.got[k].err
       /\ bc' = BcIdle
       /\ mu' = "free"
       /\ UNCHANGED <<nodes, N, ctxs, loop, removed>>]_vars

\* a status query answered with two records, one with a reported status and
\* one with an error
C17_Witness ==
  /\ resp.kind = "status"
  /\ Len(resp.body) = 2
  /\ \E i \in 1..2 : resp.body[i].status = "attached"
  /\ \E i \in 1..2 : resp.body[i].status = "error"
  /\ bc = BcIdle

\* C18: every runtime operation of the Source returns an error when the
\* management node answers with a status other than 200, and the error's
\* detail is the response body when that body is not empty.
C18_Non200IsErrorWithBody ==
  (wk.ret.op # "" /\ wk.ret.status # 200) =>
    /\ wk.ret.err # NoErr
    /\ (wk.ret.readOk /\ wk.ret.body # "") => wk.ret.detail = wk.ret.body

\* C19: a worker process that registered and then shut down on the signal
\* (main returned) has sent DELETE /node for its name, and its entry is no
\* longer in the registry.
C19_ShutdownDeregisters ==
  (wk.pc = "exited" /\ wk.exit = "return") =>
    /\ wk.unreg = "sent"
    /\ WorkerKey \notin DOMAIN nodes

\* C20: a ping that failed leaves membership as it is and the Node's loop
\* running, and changes nothing of the Node but its error; the next ping
\* that succeeds clears the error, with the same Nodes and members as before.
C20_FailedPingKeepsMember ==
  [][\A h \in Allocated :
       (loop[h].pc = "ping" /\ loop'[h].pc # "ping") =>
         /\ nodes' = nodes
         /\ Len(N') = Len(N)
         /\ ctxs' = ctxs
         /\ loop'[h].pc = "select"
         /\ ~loop[h].ok => N'[h] = [N[h] EXCEPT !.err = "ping failed"]
         /\ loop[h].ok => N'[h].err = NoErr]_vars

\* a member whose last ping failed and whose loop is waiting for the next tick
C20_Witness ==
  \E k \in DOMAIN nodes :
    /\ N[nodes[k]].err # NoErr
    /\ loop[nodes[k]].pc = "select"
    /\ ctxs[nodes[k]] = "live"

\* the step in which the loop of Node h records the result of its ping
PingRecorded(h) == loop[h].pc = "ping" /\ loop'[h].pc # "ping"

\* the health fields of a Node
Health(n) == <<n.err, n.version, n.lastSeen>>

\* C21: the result of a tick's ping is recorded in one step: after a
\* successful ping the error is nil, the version is the ping's result and
\* lastSeen is the current time; after a failed ping only the error is set,
\* version and lastSeen are as before; and the health fields change in no
\* other step, so that no state lies between these updates.
C21_TickUpdatesTogether ==
  [][\A h \in Allocated :
       /\ (PingRecorded(h) /\ loop[h].ok) =>
            Health(N'[h]) = <<NoErr, loop[h].nv, now>>
       /\ (PingRecorded(h) /\ ~loop[h].ok) =>
            /\ N'[h].err # NoErr
            /\ N'[h].version = N[h].version
            /\ N'[h].lastSeen = N[h].lastSeen
       /\ Health(N'[h]) # Health(N[h]) => PingRecorded(h)]_vars

\* a Node whose version and lastSeen were set by a successful ping and whose
\* later ping failed: the error is set, version and lastSeen are the old ones
C21_Witness ==
  \E h \in Allocated :
    /\ N[h].err # NoErr
    /\ N[h].version = "v2"
    /\ N[h].lastSeen = 1
    /\ now = 2
    /\ loop[h].pc = "select"

\* C22: a ping that is in flight stays as it is until it returns, whatever
\* happens meanwhile, cancellation of the loop's context included: what the
\* loop records is what the worker answers.
C22_InFlightPingNotAborted ==
  [][\A h \in Allocated :
       (loop[h].pc = "ping" /\ loop'[h].pc = "ping") => loop'[h] = loop[h]]_vars

\* C23: a ping is issued only by a loop that is at its select, the result
\* of its previous ping recorded: no step issues a ping for a Node whose
\* ping is in flight.
C23_OnePingInFlight ==
  [][now' # now =>
       \E h \in Allocated :
         /\ loop[h].pc = "select"
         /\ loop'[h].pc = "ping"
         /\ \A h2 \in Allocated \ {h} : loop'[h2] = loop[h2]]_vars

\* the second ping of a Node is in flight, the first recorded
\* (lastSeen = 1), while another Node's loop is at its select
C23_Witness ==
  /\ now = 2
  /\ \E h \in Allocated :
       /\ loop[h].pc = "ping"
       /\ N[h].lastSeen = 1
       /\ \E h2 \in Allocated \ {h} : loop[h2].pc = "select"

C26_Required == <<"KEY_ID", "SECRET", "REGION", "ENDPOINT", "USE_SSL", "URL_STYLE">>

\* the first of them that the key set ps lacks
C26_FirstMissing(ps) ==
  C26_Required[CHOOSE i \in 1..6 :
                 /\ C26_Required[i] \notin ps
                 /\ \A j \in 1..(i - 1) : C26_Required[j] \in ps]

C29_BroadcastTerminates ==
  /\ [](bc.pc = "check" => \A k \in DOMAIN bc.g : bc.g[k].pc = "done")
  /\ ((bc.pc # "idle" \/ bc.col.pc # "none")
        ~> (bc.pc = "idle" /\ bc.col.pc = "none" /\ mu = "free"))

\* a broadcast answered with the errors of two members, its collector gone
\* and the lock free
C29_Witness ==
  /\ resp.kind = "mutation"
  /\ resp.status = 500
  /\ Len(resp.body) = 2
  /\ bc.pc = "idle"
  /\ bc.col.pc = "none"
  /\ mu = "free"

\* the handler of a broadcast takes its first statements
C30_Begins == bc.pc = "idle" /\ bc'.op \in MutationOps \cup {"status", "list"}

\* C30 as stated: the aggregate deadline of every broadcast is the per-node
\* timeout times the number of members when it begins.
C30_DeadlineTimesMembers ==
  [][C30_Begins => bc'.deadline = Timeout * Cardinality(DOMAIN nodes)]_vars

\* C30: the aggregate deadline of load, unload, register and unregister is
\* twice the per-node timeout whatever the number of members; that of the
\* status query and of the listing is the per-node timeout times the number
\* of members when the handler begins.
C30_DeadlineByOperation ==
  [][C30_Begins =>
       bc'.deadline = IF bc'.op \in MutationOps THEN 2 * Timeout
                      ELSE Timeout * Cardinality(DOMAIN nodes)]_vars

\* a mutation broadcast over one member with a deadline of two timeouts
C30_Witness ==
  /\ bc.pc = "wait"
  /\ bc.op \in MutationOps
  /\ Cardinality(DOMAIN nodes) = 1
  /\ bc.deadline = 2 * Timeout

\* the loop of the i-th call of Start runs: between context.WithCancel and
\* its return
RsRunning(i) == rs.g[i] \in {"select", "ping"}

\* C24: a second Start on a Node whose loop runs cancels the context of the
\* old loop before the new loop begins, and the new loop keeps running:
\* as long as Stop is not called from outside, the context of the new loop
\* is live and n.stop is its cancel function, whatever the old loop does
\* on its way out.
C24_RestartKeepsNewLoop ==
  /\ RsRunning(2) => rs.ctx[1] = "done"
  /\ (RsRunning(2) /\ rs.stops = 0) => (rs.ctx[2] = "live" /\ rs.n.stop = 2)

\* C25: a Stop on a Node without a running loop (n.stop is nil: never
\* started, or stopped) changes neither the Node nor any context, and after
\* any Stop a further Stop changes nothing: n.stop is nil and no context is
\* live that it could cancel.
C25_StopIdempotent ==
  [][rs'.stops # rs.stops =>
       /\ rs.n.stop = 0 => (rs'.n = rs.n /\ rs'.ctx = rs.ctx /\ rs'.g = rs.g)
       /\ StopNode(rs'.n) = rs'.n
       /\ StopCtx(rs'.ctx, rs'.n) = rs'.ctx
       /\ rs'.n.stop = 0
       /\ rs'.n.err = rs.n.err]_vars

\* Stop was called twice from outside, at least once on a Node whose loop
\* had been started, and a loop has ended
C25_Witness ==
  /\ rs.stops = 2
  /\ rs.ev = "Stop"
  /\ rs.ctx[1] = "done"
  /\ rs.g[1] = "done"

\* C33: every entry of a GET /node answer is consistent in itself: its
\* ready flag is true exactly when its error is empty and its version is the
\* cluster version.
C33_EntryConsistent ==
  resp.kind = "nodes" =>
    \A e \in resp.body : e.ready = (e.error = "" /\ e.version = ClusterVersion)

\* the names under which a Node with this url is a member
NamesOfUrl(url) == {k \in DOMAIN nodes : N[nodes[k]].url = url}

\* C31: POST /node decides by url: when a member with the request's url
\* exists, under whatever name, the request removes it and inserts nothing;
\* otherwise it inserts a new Node under the request's name. No two members
\* ever have the same url.
C31_RegisterDecidesByUrl ==
  /\ [](\A k1, k2 \in DOMAIN nodes :
          k1 # k2 => N[nodes[k1]].url # N[nodes[k2]].url)
  /\ [][\A name \in NameInputs, url \in Urls, v \in VersionInputs :
          NodePost(name, url, v, Secret) =>
            IF NamesOfUrl(url) # {}
              THEN /\ DOMAIN nodes' = DOMAIN nodes \ NamesOfUrl(url)
                   /\ Len(N') = Len(N)
              ELSE /\ DOMAIN nodes' = DOMAIN nodes \cup {IF name = "" THEN url ELSE name}
                   /\ Len(N') = Len(N) + 1]_vars

\* the loop of Node h runs: past context.WithCancel, not returned, its
\* context not cancelled
RunningLoop(h) == loop[h].pc \in {"select", "ping"} /\ ctxs[h] = "live"

\* C32: every running health loop is the loop of a Node that is a member,
\* so there are no more running loops than members.
C32_NoLoopOutlivesEntry ==
  /\ \A h \in Allocated : RunningLoop(h) => \E k \in DOMAIN nodes : nodes[k] = h
  /\ Cardinality({h \in Allocated : RunningLoop(h)}) <= Cardinality(DOMAIN nodes)

\* C36: a POST /node without name acts on the entry named by the url: when
\* the url is a member the entry is removed and the loop of its Node is
\* stopped, otherwise a Node for the url is inserted under the url; so the
\* url's membership alternates from call to call.
C36_NamelessRegisterToggles ==
  [][\A url \in Urls, v \in VersionInputs :
       NodePost("", url, v, Secret) =>
         IF url \in DOMAIN nodes
           THEN /\ nodes' = MapDelete(nodes, url)
                /\ loop'[nodes[url]].pc = "done" \/ ctxs'[nodes[url]] = "done"
           ELSE /\ DOMAIN nodes' = DOMAIN nodes \cup {url}
                /\ N'[nodes'[url]].url = url
                /\ \A k \in DOMAIN nodes : nodes'[k] = nodes[k]]_vars

\* C37: when the query of a ready member fails during the storage listing,
\* the handler answers 500 with the error's text and nothing else, whatever
\* it had gathered from the members queried before, and ends there: the
\* lock is free and no further member is queried.
C37_ListingFailsAsAWhole ==
  [][\A k \in bc.todo, ss \in StorageAnswers :
       (LsStep(k, FALSE, ss) /\ IsReady(N[nodes[k]])) =>
         /\ resp'.kind = "list"
         /\ resp'.status = 500
         /\ resp'.body = "boom"
         /\ bc'.pc = "idle"
         /\ bc'.out = <<>>
         /\ mu' = "free"]_vars

\* a listing answered 500 with the error text, over two members
C37_Witness ==
  /\ resp.kind = "list"
  /\ resp.status = 500
  /\ resp.body = "boom"
  /\ mu = "free"
  /\ Cardinality(DOMAIN nodes) = 2

\* C34: a broadcast works on the membership it finds when it takes
\* Service.mu: its goroutines (or its loop) are those of the members at that
\* moment, membership does not change from then until the handler has
\* answered, every per-node call is made on a member, and when a mutation
\* broadcast answers every member has been called.
C34_BroadcastOverFixedMembership ==
  [][/\ bc.pc \in {"wait", "check", "list", "status"} =>
          (nodes' = nodes /\ removed' = removed)
     /\ (bc.pc = "idle" /\ bc'.pc = "wait") => DOMAIN bc'.g = DOMAIN nodes
     /\ (bc.pc = "idle" /\ bc'.pc \in {"list", "status"}) => bc'.todo = DOMAIN nodes
     /\ \A k \in DOMAIN bc.g :
          (bc.g[k].pc = "call" /\ bc'.pc = "wait" /\ bc'.g[k].pc # "call") =>
            (k \in DOMAIN nodes /\ nodes[k] \notin removed)
     /\ (bc.pc \in {"list", "status"} /\ bc'.called # bc.called) =>
          \A k \in bc'.called : k \in DOMAIN nodes /\ nodes[k] \notin removed
     /\ MutationResponds =>
          (DOMAIN bc.g = DOMAIN nodes /\ \A k \in DOMAIN bc.g : bc.g[k].pc = "done")]_vars

\* a broadcast over the one member left after a DELETE, that member called
C34_Witness ==
  /\ bc.pc = "wait"
  /\ removed # {}
  /\ Cardinality(DOMAIN nodes) = 1
  /\ bc.called = DOMAIN nodes

\* C38: no step of a broadcast, of the status query or of the listing
\* changes the registry: membership, the Nodes with their error, version and
\* lastSeen, the contexts and the loops are after the step what they were
\* before, whether the per-node call succeeded or failed.
C38_BroadcastLeavesRegistry ==
  [][(bc' # bc /\ (bc.op \in MutationOps \cup {"status", "list"}
                   \/ bc'.op \in MutationOps \cup {"status", "list"})) =>
       UNCHANGED <<nodes, N, ctxs, loop, now, removed>>]_vars

\* a mutation broadcast answered with the failure of a member that is
\* still ready
C38_Witness ==
  /\ resp.kind = "mutation"
  /\ resp.status = 500
  /\ \E i \in 1..Len(resp.body) :
       /\ resp.body[i].err = "boom"
       /\ resp.body[i].node \in DOMAIN nodes
       /\ IsReady(N[nodes[resp.body[i].node]])

\* C35: the Node a POST /node inserts has a nil error and the version of
\* the request, so it is ready exactly when that version is the cluster
\* version; and a Node that is not ready becomes ready only in the step that
\* records a successful ping reporting the cluster version.
C35_NewNodeReadyByRequestVersion ==
  [][/\ \A name \in NameInputs, url \in Urls, v \in RegisterVersions :
          (Len(N') > Len(N) /\ NodePost(name, url, v, Secret)) =>
            /\ N'[Len(N')].err = NoErr
            /\ N'[Len(N')].version = v
            /\ IsReady(N'[Len(N')]) <=> (v = ClusterVersion)
     /\ \A h \in Allocated :
          (~IsReady(N[h]) /\ IsReady(N'[h])) =>
            (PingRecorded(h) /\ loop[h].ok /\ loop[h].nv = ClusterVersion)]_vars

\* a Node registered without version, not ready while its first ping is in
\* flight, beside a Node registered with the cluster version, ready before
\* its loop has started
C35_Witness ==
  /\ \E h \in Allocated :
       N[h].version = "" /\ N[h].err = NoErr /\ ~IsReady(N[h]) /\ loop[h].pc = "ping"
  /\ \E h \in Allocated :
       N[h].version = ClusterVersion /\ IsReady(N[h]) /\ loop[h].pc = "start"

====
